---- MODULE Spec2Model ----
(***************************************************************************)
(* A model of docs/convert_links.py: the rewrite of absolute documentation *)
(* links ("](/docs/v1/...)") into relative links, file by file.            *)
(*                                                                         *)
(* Text is modelled character by character: a Python str is a sequence of  *)
(* one-character strings.  The library calls the script makes (str         *)
(* methods, posixpath.join/dirname/normpath/relpath, re.sub with the       *)
(* script's pattern) are operators that compute what the library computes. *)
(***************************************************************************)
EXTENDS Integers, Sequences, FiniteSets, TLC

VARIABLES
    \* ---- one document, processed repeatedly (FileSpec) ----
    file_path,        \* absolute path of the document
    content,          \* what the file holds on disk
    original,         \* what the file held before the first call
    calls,            \* one record per completed process_file call: the text before
                      \* and after, whether it wrote, what it returned, its matches
    \* ---- a run of main over a tree (Spec) ----
    walk,             \* os.walk order: a sequence of the tree's files
    disk,             \* file index -> current content
    pc,               \* where main is
    idx,              \* index in walk of the file the loops are at
    files_processed,  \* main's counter
    files_changed,    \* main's counter
    stdout,           \* the lines printed so far
    io                \* the file operations performed so far, in order

vars == <<file_path, content, original, calls,
          walk, disk, pc, idx, files_processed, files_changed, stdout, io>>

fileVars == <<file_path, content, original, calls>>
mainVars == <<walk, disk, pc, idx, files_processed, files_changed, stdout, io>>

-----------------------------------------------------------------------------
(* str methods *)

sep == "/"

StartsWith(s, p) == Len(p) <= Len(s) /\ SubSeq(s, 1, Len(p)) = p

\* s holds p at index i
HoldsAt(s, i, p) == i + Len(p) - 1 <= Len(s) /\ SubSeq(s, i, i + Len(p) - 1) = p

EndsWith(s, p) == Len(p) <= Len(s) /\ SubSeq(s, Len(s) - Len(p) + 1, Len(s)) = p

\* the least and the greatest of a set of positive numbers, 0 for the empty set
Least(M) == IF M = {} THEN 0 ELSE CHOOSE m \in M : \A n \in M : m <= n
Greatest(M) == IF M = {} THEN 0 ELSE CHOOSE m \in M : \A n \in M : n <= m

\* str.find(c, from): the least index >= from holding c, 0 when there is none
FindChar(s, c, from) == Least({i \in from..Len(s) : s[i] = c})

\* str.rfind(c): the greatest index holding c, 0 when there is none
RFindChar(s, c) == Greatest({i \in 1..Len(s) : s[i] = c})

\* the k-th index of the set P of indexes, counted from the least; 0 for k = 0
NthOf(P, k) == IF k = 0 THEN 0 ELSE CHOOSE i \in P : Cardinality({j \in P : j <= i}) = k

\* str.split(c): the stretches of s between one c and the next, the start and
\* the end of s counting as one; P is the set of the indexes holding c
SplitAt(s, P) ==
    [k \in 1..(Cardinality(P) + 1) |->
        SubSeq(s, NthOf(P, k - 1) + 1,
               IF k > Cardinality(P) THEN Len(s) ELSE NthOf(P, k) - 1)]
Split(s, c) == SplitAt(s, {i \in 1..Len(s) : s[i] = c})

\* c.join(comps): the first half joined, c, and the second half joined
RECURSIVE JoinWith(_, _)
JoinWith(comps, c) ==
    IF comps = <<>> THEN <<>>
    ELSE IF Len(comps) = 1 THEN comps[1]
    ELSE JoinWith(SubSeq(comps, 1, Len(comps) \div 2), c)
         \o <<c>>
         \o JoinWith(SubSeq(comps, Len(comps) \div 2 + 1, Len(comps)), c)

\* str.replace(a, b) for one-character a and b
Replace(s, a, b) == [i \in 1..Len(s) |-> IF s[i] = a THEN b ELSE s[i]]

\* str.rstrip(c)
RECURSIVE RStrip(_, _)
RStrip(s, c) ==
    IF s # <<>> /\ s[Len(s)] = c THEN RStrip(SubSeq(s, 1, Len(s) - 1), c) ELSE s

-----------------------------------------------------------------------------
(* posixpath *)

dot == <<".">>
dotdot == <<".", ".">>

\* os.path.join(a, b)
os_path_join(a, b) ==
    IF StartsWith(b, <<sep>>) THEN b
    ELSE IF a = <<>> \/ EndsWith(a, <<sep>>) THEN a \o b
    ELSE a \o <<sep>> \o b

\* os.path.join(p[0], *p[1:]) for a list p that is not empty.  The loop joins
\* one component after the other; os.path.join is associative, so this is the
\* first half joined, joined with the second half joined.
RECURSIVE os_path_join_all(_)
os_path_join_all(p) ==
    IF Len(p) = 1 THEN p[1]
    ELSE os_path_join(os_path_join_all(SubSeq(p, 1, Len(p) \div 2)),
                      os_path_join_all(SubSeq(p, Len(p) \div 2 + 1, Len(p))))

\* os.path.dirname(p)
DirnameHead(head) ==
    IF head # <<>> /\ \E i \in 1..Len(head) : head[i] # sep
    THEN RStrip(head, sep) ELSE head
os_path_dirname(p) == DirnameHead(SubSeq(p, 1, RFindChar(p, sep)))

\* the loop of os.path.normpath over the components.  new_comps is a stack: an
\* empty component and "." leave it alone, a name is pushed, and ".." takes the
\* name on top off, is pushed itself when there is no name to take off and the
\* path is relative, and is dropped when the stack is empty and the path
\* absolute.  U is the set of rounds whose component is "..", S the set of rounds
\* whose component is empty or ".".

\* how many names the rounds i+1..j push
NamesPushed(i, j, U, S) == (j - i) - Cardinality({k \in U \cup S : i < k /\ k <= j})

\* the name pushed in round i is on the stack after round n: up to any later
\* "..", the ".." after round i do not outnumber the names pushed after it
NameStays(i, n, U, S) ==
    \A j \in U : (i < j /\ j <= n) =>
        Cardinality({k \in U : i < k /\ k <= j}) <= NamesPushed(i, j, U, S)

\* the ".." of round j is pushed: the path is relative and the stack holds no name
UpStays(j, U, S, initial_slashes) ==
    /\ initial_slashes = 0
    /\ \A i \in 1..(j - 1) : i \in U \cup S \/ ~NameStays(i, j - 1, U, S)

\* the rounds whose component is in new_comps after the loop
NormKept(n, U, S, initial_slashes) ==
    {i \in 1..n : IF i \in U THEN UpStays(i, U, S, initial_slashes)
                  ELSE i \notin S /\ NameStays(i, n, U, S)}

\* the elements of comps at the indexes P, in order
Pick(comps, P) == [k \in 1..Cardinality(P) |-> comps[NthOf(P, k)]]

\* new_comps after the loop
NormComps(comps, initial_slashes) ==
    Pick(comps, NormKept(Len(comps),
                         {k \in 1..Len(comps) : comps[k] = dotdot},
                         {k \in 1..Len(comps) : comps[k] = <<>> \/ comps[k] = dot},
                         initial_slashes))

\* os.path.normpath(path)
\* POSIX allows one or two initial slashes, and treats three or more as one
InitialSlashes(path) ==
    IF ~StartsWith(path, <<sep>>) THEN 0
    ELSE IF StartsWith(path, <<sep, sep>>) /\ ~StartsWith(path, <<sep, sep, sep>>)
    THEN 2 ELSE 1

\* sep * initial_slashes + sep.join(comps)
NormJoin(path, initial_slashes) ==
    [i \in 1..initial_slashes |-> sep]
        \o JoinWith(NormComps(Split(path, sep), initial_slashes), sep)

\* path or dot
OrDot(path) == IF path = <<>> THEN dot ELSE path

os_path_normpath(path) ==
    IF path = <<>> THEN dot ELSE OrDot(NormJoin(path, InitialSlashes(path)))

\* os.path.abspath(path) of an absolute path (the script only passes absolute ones)
os_path_abspath(path) == os_path_normpath(path)

\* the components of a path that are not empty
NonEmptyComps(path) == SelectSeq(Split(path, sep), LAMBDA x : x # <<>>)

\* len(os.path.commonprefix([a, b])) of two component lists
CommonLen(a, b) ==
    Cardinality({i \in 1..Len(a) : \A j \in 1..i : j <= Len(b) /\ a[j] = b[j]})

\* os.path.relpath(path, start)
\* [pardir] * (len(start_list) - i) + path_list[i:]
RelList(start_list, path_list, i) ==
    [k \in 1..(Len(start_list) - i) |-> dotdot] \o SubSeq(path_list, i + 1, Len(path_list))

\* curdir for an empty rel_list, join(*rel_list) otherwise
RelJoin(rel_list) ==
    IF rel_list = <<>> THEN dot ELSE os_path_join_all(rel_list)

RelOfLists(start_list, path_list) ==
    RelJoin(RelList(start_list, path_list, CommonLen(start_list, path_list)))

os_path_relpath(path, start) ==
    RelOfLists(NonEmptyComps(os_path_abspath(start)), NonEmptyComps(os_path_abspath(path)))

-----------------------------------------------------------------------------
(* the script's constants *)

BASE_DIR ==
    <<"/", "U", "s", "e", "r", "s", "/", "b", "o", "o", "k", "e", "r", "/", "C", "o", "d", "e", "/", "m", "a", "s", "t", "r", "a", "/", "d", "o", "c", "s", "/", "s", "r", "c", "/", "c", "o", "n", "t", "e", "n", "t", "/", "e", "n">>

REFERENCE_DIR == os_path_join(BASE_DIR, <<"r", "e", "f", "e", "r", "e", "n", "c", "e">>)

\* a slip in lines 10-16: a section of the pattern has no entry in the dict
URL_MAPPINGS_NoModels == <<
    [url_prefix |-> <<"/", "d", "o", "c", "s", "/", "v", "1", "/">>,
     section_dir |-> <<"d", "o", "c", "s", "/">>],
    [url_prefix |-> <<"/", "r", "e", "f", "e", "r", "e", "n", "c", "e", "/", "v", "1", "/">>,
     section_dir |-> <<"r", "e", "f", "e", "r", "e", "n", "c", "e", "/">>],
    [url_prefix |-> <<"/", "g", "u", "i", "d", "e", "s", "/", "v", "1", "/">>,
     section_dir |-> <<"g", "u", "i", "d", "e", "s", "/">>],
    [url_prefix |-> <<"/", "e", "x", "a", "m", "p", "l", "e", "s", "/", "v", "1", "/">>,
     section_dir |-> <<"e", "x", "a", "m", "p", "l", "e", "s", "/">>] >>

\* the dict, in insertion order (the order .items() iterates in)
URL_MAPPINGS == <<
    [url_prefix |-> <<"/", "d", "o", "c", "s", "/", "v", "1", "/">>,
     section_dir |-> <<"d", "o", "c", "s", "/">>],
    [url_prefix |-> <<"/", "r", "e", "f", "e", "r", "e", "n", "c", "e", "/", "v", "1", "/">>,
     section_dir |-> <<"r", "e", "f", "e", "r", "e", "n", "c", "e", "/">>],
    [url_prefix |-> <<"/", "g", "u", "i", "d", "e", "s", "/", "v", "1", "/">>,
     section_dir |-> <<"g", "u", "i", "d", "e", "s", "/">>],
    [url_prefix |-> <<"/", "m", "o", "d", "e", "l", "s", "/", "v", "1", "/">>,
     section_dir |-> <<"m", "o", "d", "e", "l", "s", "/">>],
    [url_prefix |-> <<"/", "e", "x", "a", "m", "p", "l", "e", "s", "/", "v", "1", "/">>,
     section_dir |-> <<"e", "x", "a", "m", "p", "l", "e", "s", "/">>] >>

mdx == <<".", "m", "d", "x">>

-----------------------------------------------------------------------------
(* get_relative_path *)

\* lines 42-43: remove the .mdx extension if present
StripMdx(rel_path) ==
    IF EndsWith(rel_path, mdx) THEN SubSeq(rel_path, 1, Len(rel_path) - 4) ELSE rel_path

\* a slip in lines 46-47: the test is for ".." where the code tests for "../"
EnsureDotSlash_DotDot(rel_path) ==
    IF ~StartsWith(rel_path, <<".", ".">>) THEN <<".", "/">> \o rel_path ELSE rel_path

\* lines 46-47: the path starts with ./ if it does not start with ../
EnsureDotSlash(rel_path) ==
    IF ~StartsWith(rel_path, <<".", ".", "/">>) THEN <<".", "/">> \o rel_path ELSE rel_path

\* a slip in line 32: the path is taken relative to the file, not its directory
get_relative_path_FromFile(from_file, to_section, to_path) ==
    EnsureDotSlash(StripMdx(Replace(
        os_path_relpath(os_path_join_all(<<BASE_DIR, to_section, to_path>>), from_file),
        "\\", "/")))

get_relative_path(from_file, to_section, to_path) ==
    EnsureDotSlash(StripMdx(Replace(
        os_path_relpath(os_path_join_all(<<BASE_DIR, to_section, to_path>>),
                        os_path_dirname(from_file)),
        "\\", "/")))

-----------------------------------------------------------------------------
(* convert_link *)

IsExternal(link_content) ==
    \/ StartsWith(link_content, <<"h", "t", "t", "p", ":", "/", "/">>)
    \/ StartsWith(link_content, <<"h", "t", "t", "p", "s", ":", "/", "/">>)

\* link_content, hash_anchor = link_content.split("#", 1); hash_anchor = "#" + hash_anchor
SplitHashAt(link_content, h) ==
    IF h = 0 THEN [link |-> link_content, hash_anchor |-> <<>>]
    ELSE [link |-> SubSeq(link_content, 1, h - 1),
          hash_anchor |-> SubSeq(link_content, h, Len(link_content))]
SplitHash(link_content) == SplitHashAt(link_content, FindChar(link_content, "#", 1))

\* the mappings whose url_prefix the link starts with
MatchingMappings(link) ==
    {m \in 1..Len(URL_MAPPINGS) : StartsWith(link, URL_MAPPINGS[m].url_prefix)}

\* the mapping the for loop returns at: the first one in iteration order, 0 for none
FirstMapping(link) == Least(MatchingMappings(link))

\* which return statement convert_link leaves by
ConvertReturn(link_content) ==
    IF IsExternal(link_content) THEN "external"
    ELSE IF FirstMapping(SplitHash(link_content).link) = 0 THEN "unmatched"
    ELSE "converted"

\* the body of the for loop for the mapping mp the link starts with
ConvertWith(mp, link, hash_anchor, path) ==
    <<"]", "(">>
        \o get_relative_path(path, mp.section_dir,
                             SubSeq(link, Len(mp.url_prefix) + 1, Len(link)))
        \o hash_anchor \o <<")">>

\* the for loop and the return after it, m being the first mapping that matches
ConvertLoop(full_match, sp, m, path) ==
    IF m = 0 THEN full_match
    ELSE ConvertWith(URL_MAPPINGS[m], sp.link, sp.hash_anchor, path)

\* lines 61-82, sp being the link split at its first "#"
ConvertSplit(full_match, sp, path) ==
    ConvertLoop(full_match, sp, FirstMapping(sp.link), path)

convert_link(full_match, link_content, path) ==
    IF IsExternal(link_content) THEN full_match
    ELSE ConvertSplit(full_match, SplitHash(link_content), path)

-----------------------------------------------------------------------------
(* process_file: the pattern and re.sub *)

\* the alternation (?:docs|reference|guides|models|examples) of the pattern
PatternSections == <<
    <<"d", "o", "c", "s">>,
    <<"r", "e", "f", "e", "r", "e", "n", "c", "e">>,
    <<"g", "u", "i", "d", "e", "s">>,
    <<"m", "o", "d", "e", "l", "s">>,
    <<"e", "x", "a", "m", "p", "l", "e", "s">> >>

\* \]\(/ section /v1/ : the fixed text a match starts with, for alternative a
PatternHead(a) == <<"]", "(", "/">> \o PatternSections[a] \o <<"/", "v", "1", "/">>

\* a match of the pattern starting at index i: the index of its closing ")",
\* 0 when the pattern does not match at i.  [^)]+ takes every character up to
\* the next ")" and needs at least one.
\* [^)]+\) from index j on: the index of the ")", 0 when it does not match
MatchBody(j, k) == IF k > j THEN k ELSE 0

\* the pattern at index i, with alternative a (0: no alternative is there)
MatchWith(s, i, a) ==
    IF a = 0 THEN 0
    ELSE MatchBody(i + Len(PatternHead(a)), FindChar(s, ")", i + Len(PatternHead(a))))

MatchAt(s, i) ==
    IF s[i] # "]" THEN 0
    ELSE MatchWith(s, i, Least({a \in 1..Len(PatternSections) :
                                   HoldsAt(s, i, PatternHead(a))}))

\* where the search of re.sub from index i on finds the next match: the least
\* index >= i the pattern matches at, 0 when there is none
NextMatch(s, i) == Least({k \in i..Len(s) : MatchAt(s, k) # 0})

\* the matches re.sub finds from index i on: leftmost, not overlapping
RECURSIVE Matches(_, _)
MatchesAt(s, i) ==
    IF i = 0 THEN <<>>
    ELSE <<[start |-> i, end |-> MatchAt(s, i)]>> \o Matches(s, MatchAt(s, i) + 1)
Matches(s, i) == MatchesAt(s, NextMatch(s, i))

\* match.group(0) and match.group(1)
Group0(s, m) == SubSeq(s, m.start, m.end)
Group1(s, m) == SubSeq(s, m.start + 2, m.end - 1)

\* re.sub(pattern, lambda m: convert_link(m, file_path), content), from index i on
RECURSIVE re_sub(_, _, _)
\* the text from index from on, its next match being from i to k (i = 0: there
\* is none): the text before the match as it is, what convert_link returns for
\* the match, and the same for the text after it
re_sub_at(s, from, i, k, path) ==
    IF i = 0 THEN SubSeq(s, from, Len(s))
    ELSE SubSeq(s, from, i - 1)
         \o convert_link(SubSeq(s, i, k), SubSeq(s, i + 2, k - 1), path)
         \o re_sub(s, k + 1, path)
re_sub_next(s, from, i, path) ==
    re_sub_at(s, from, i, IF i = 0 THEN 0 ELSE MatchAt(s, i), path)
re_sub(s, from, path) == re_sub_next(s, from, NextMatch(s, from), path)

\* process_file on a file holding text: what the file holds afterwards, whether
\* it was opened for writing, and the value returned
\* a slip in lines 101-106: the file is written whether or not it changed
WriteAlways(original_content, new_content) ==
    [content |-> new_content, wrote |-> TRUE, ret |-> TRUE]

\* lines 101-106: only write if content changed
WriteIfChanged(original_content, new_content) ==
    IF new_content # original_content
    THEN [content |-> new_content, wrote |-> TRUE, ret |-> TRUE]
    ELSE [content |-> original_content, wrote |-> FALSE, ret |-> FALSE]

process_file(text, path) == WriteIfChanged(text, re_sub(text, 1, path))

-----------------------------------------------------------------------------
(* the inputs: documents and document locations *)

MaxUnits == 2
MaxCalls == 2

\* the link of the first worked example
LinkCreateTool ==
    <<"[", "t", "e", "x", "t", "]", "(", "/", "r", "e", "f", "e", "r", "e", "n", "c", "e", "/", "v", "1", "/", "t", "o", "o", "l", "s", "/", "c", "r", "e", "a", "t", "e", "-", "t", "o", "o", "l", ")">>

\* the link of the second worked example, with a fragment
LinkOverview ==
    <<"[", "t", "e", "x", "t", "]", "(", "/", "d", "o", "c", "s", "/", "v", "1", "/", "m", "e", "m", "o", "r", "y", "/", "o", "v", "e", "r", "v", "i", "e", "w", "#", "p", "e", "r", "s", "i", "s", "t", "e", "n", "c", "e", ")">>

\* an external link
LinkExternal ==
    <<"[", "t", "e", "x", "t", "]", "(", "h", "t", "t", "p", "s", ":", "/", "/", "e", "x", "a", "m", "p", "l", "e", ".", "c", "o", "m", "/", "d", "o", "c", "s", "/", "v", "1", "/", "x", ")">>

\* a link with an unknown prefix
LinkUnknown ==
    <<"[", "t", "e", "x", "t", "]", "(", "/", "u", "n", "k", "n", "o", "w", "n", "/", "v", "1", "/", "x", ")">>

\* nothing after the prefix
LinkEmptyPath ==
    <<"]", "(", "/", "d", "o", "c", "s", "/", "v", "1", "/", ")">>

\* nothing after the prefix but a fragment
LinkEmptyPathFrag ==
    <<"]", "(", "/", "g", "u", "i", "d", "e", "s", "/", "v", "1", "/", "#", "f", ")">>

\* the section directory itself, as "."
LinkDot ==
    <<"]", "(", "/", "r", "e", "f", "e", "r", "e", "n", "c", "e", "/", "v", "1", "/", ".", ")">>

\* a subpath that begins with "/"
LinkAbsSubpath ==
    <<"]", "(", "/", "m", "o", "d", "e", "l", "s", "/", "v", "1", "/", "/", "a", ")">>

\* a ".." segment and a ".mdx" suffix
LinkDotDotMdx ==
    <<"]", "(", "/", "e", "x", "a", "m", "p", "l", "e", "s", "/", "v", "1", "/", ".", ".", "/", "b", ".", "m", "d", "x", ")">>

\* a link left open inside its fragment
OpenLinkHash ==
    <<"]", "(", "/", "d", "o", "c", "s", "/", "v", "1", "/", "a", "#">>

\* a link left open inside its path
OpenLink ==
    <<"]", "(", "/", "r", "e", "f", "e", "r", "e", "n", "c", "e", "/", "v", "1", "/", "a">>

\* a known prefix not preceded by "]"
NoBracket ==
    <<"(", "/", "d", "o", "c", "s", "/", "v", "1", "/", "a", ")">>

\* a backslash in the path
LinkBackslash ==
    <<"]", "(", "/", "d", "o", "c", "s", "/", "v", "1", "/", "a", "\\", "b", ")">>

\* a lone closing parenthesis
CloseParen ==
    <<")">>

Units == {LinkCreateTool, LinkOverview, LinkExternal, LinkUnknown, LinkEmptyPath, LinkEmptyPathFrag, LinkDot, LinkAbsSubpath, LinkDotDotMdx, OpenLinkHash, OpenLink, NoBracket, LinkBackslash, CloseParen}

RECURSIVE Concat(_)
Concat(us) == IF us = <<>> THEN <<>> ELSE Head(us) \o Concat(Tail(us))

\* the documents: up to MaxUnits units, one after the other
Docs == UNION {{Concat(us) : us \in [1..n -> Units]} : n \in 0..MaxUnits}

PathOverview == os_path_join(REFERENCE_DIR, <<"m", "e", "m", "o", "r", "y", "/", "o", "v", "e", "r", "v", "i", "e", "w", ".", "m", "d", "x">>)
PathAgent == os_path_join(REFERENCE_DIR, <<"a", "g", "e", "n", "t", "s", "/", "a", "g", "e", "n", "t", ".", "m", "d", "x">>)
PathIndex == os_path_join(REFERENCE_DIR, <<"i", "n", "d", "e", "x", ".", "m", "d", "x">>)

\* where a document may be: main passes os.path.join(root, file), root under REFERENCE_DIR
DocPaths == {PathOverview, PathAgent, PathIndex}

-----------------------------------------------------------------------------
(* FileSpec: process_file called on one document, again and again *)

MainIdle ==
    /\ walk = <<>> /\ disk = <<>> /\ pc = "idle" /\ idx = 0
    /\ files_processed = 0 /\ files_changed = 0 /\ stdout = <<>> /\ io = <<>>

FileInit ==
    /\ file_path \in DocPaths
    /\ content \in Docs
    /\ original = content
    /\ calls = <<>>
    /\ MainIdle

\* what re.sub did in a call: each match and what convert_link returned for it
LinksOf(s, ms, path) ==
    [j \in 1..Len(ms) |->
        [start |-> ms[j].start, end |-> ms[j].end,
         replaced |-> convert_link(Group0(s, ms[j]), Group1(s, ms[j]), path)]]

\* the call's effect on the file and its record, r being what process_file did
Called(r, links) ==
    /\ content' = r.content
    /\ calls' = Append(calls, [before |-> content, after |-> r.content,
                               wrote |-> r.wrote, ret |-> r.ret, links |-> links])

ProcessFile ==
    /\ pc = "idle"
    /\ Len(calls) < MaxCalls
    /\ Called(process_file(content, file_path),
              LinksOf(content, Matches(content, 1), file_path))
    /\ UNCHANGED <<file_path, original>>
    /\ UNCHANGED mainVars

FileNext == ProcessFile

FileSpec == FileInit /\ [][FileNext]_vars

-----------------------------------------------------------------------------
(* what the properties of process_file are stated with *)

\* the matches of the n-th call's input
CallMatches(n) == calls[n].links

\* what the n-th call put in the place of match m
Replaced(n, m) == m.replaced

\* by how much the matches of ms that end at or before index k moved the text
RECURSIVE Shift(_, _, _)
Shift(n, ms, k) ==
    IF ms = <<>> \/ Head(ms).end > k THEN 0
    ELSE Len(Replaced(n, Head(ms))) - (Head(ms).end - Head(ms).start + 1)
         + Shift(n, Tail(ms), k)

\* where the input's index k is in the output, for k the last index of a match
\* or an index outside every match
OutIndex(n, k) == k + Shift(n, CallMatches(n), k)

\* the output span that stands for match m
OutSpan(n, m) ==
    SubSeq(calls[n].after,
           OutIndex(n, m.end) - Len(Replaced(n, m)) + 1, OutIndex(n, m.end))

\* following a relative path, component by component, from a directory given
\* by its components: "" and "." stay, ".." goes up (the root is its own
\* parent), a name goes down.  Where the way ends is made of the names that no
\* later ".." goes back up from.

\* the ".." at j goes back up from the name at i: from i+1 to j the ".."
\* outnumber the names
GoneUp(way, i, j) ==
    Cardinality({k \in (i + 1)..j : way[k] = dotdot})
        > Cardinality({k \in (i + 1)..j : way[k] \notin {<<>>, dot, dotdot}})

\* the indexes of the names the way ends below
ArrivedAt(way) ==
    {i \in 1..Len(way) :
        /\ way[i] \notin {<<>>, dot, dotdot}
        /\ \A j \in (i + 1)..Len(way) : way[j] = dotdot => ~GoneUp(way, i, j)}

Follow(dir, comps) == Pick(dir \o comps, ArrivedAt(dir \o comps))

\* the directory that contains the document
DocDir == Follow(<<>>, Split(SubSeq(file_path, 1, RFindChar(file_path, sep)), sep))

\* the components of a section's directory, BASE_DIR/section
SectionDir(section_dir) == Follow(<<>>, Split(BASE_DIR \o <<sep>> \o section_dir, sep))

\* a component list with a trailing ".mdx" removed
WithoutMdx(comps) ==
    IF comps = <<>> \/ ~EndsWith(comps[Len(comps)], mdx) THEN comps
    ELSE LET last == comps[Len(comps)]
             cut == SubSeq(last, 1, Len(last) - 4)
             init == SubSeq(comps, 1, Len(comps) - 1)
         IN  IF cut = <<>> THEN init ELSE Follow(init, <<cut>>)

\* the normalized path BASE_DIR/section/subpath, a trailing ".mdx" removed
Target(section_dir, subpath) ==
    WithoutMdx(Follow(<<>>, Split(BASE_DIR \o <<sep>> \o section_dir \o subpath, sep)))

\* the URL of an output span "](URL)" up to its first "#"
RelativeOf(span) ==
    LET inner == SubSeq(span, 3, Len(span) - 1)
        q == FindChar(inner, "#", 1)
    IN  IF q = 0 THEN inner ELSE SubSeq(inner, 1, q - 1)

\* what follows the first "#" of a URL, hash included; empty without a "#"
FragmentOf(url) ==
    LET q == FindChar(url, "#", 1)
    IN  IF q = 0 THEN <<>> ELSE SubSeq(url, q, Len(url))

IsRelative(rel) == StartsWith(rel, <<".", "/">>) \/ StartsWith(rel, <<".", ".", "/">>)

-----------------------------------------------------------------------------
(* C1 *)

\* C1: idempotence.  A call of process_file on the output of an earlier call
\* performs no write, returns False and leaves the text as it is.
C1_Idempotent ==
    \A n \in 2..Len(calls) :
        /\ ~calls[n].wrote
        /\ ~calls[n].ret
        /\ calls[n].after = calls[n].before

-----------------------------------------------------------------------------
(* C2 *)

\* C2: every recognized link "](PREFIX+SUBPATH#FRAG)" stands in the output as
\* "](RELATIVE#FRAG)": FRAG is the text after the first "#" of the URL, byte
\* for byte (nothing when the URL has no "#"), and RELATIVE begins with "./" or
\* "../", also when the relative path computed is "." or "..".
C2_RewrittenForm ==
    \A n \in 1..Len(calls) :
        \A j \in 1..Len(CallMatches(n)) :
            LET m == CallMatches(n)[j]
                span == OutSpan(n, m)
                inner == SubSeq(span, 3, Len(span) - 1)
            IN  /\ Len(span) >= 3
                /\ StartsWith(span, <<"]", "(">>)
                /\ EndsWith(span, <<")">>)
                /\ FragmentOf(inner) = FragmentOf(Group1(calls[n].before, m))
                /\ IsRelative(RelativeOf(span))

\* a call that rewrote a link to the directory above the document's (".."),
\* and a link with a fragment
C2_Witness ==
    /\ Len(calls) >= 1
    /\ \E j \in 1..Len(CallMatches(1)) :
           RelativeOf(OutSpan(1, CallMatches(1)[j])) = <<".", "/", ".", ".">>
    /\ \E j \in 1..Len(CallMatches(1)) :
           FragmentOf(Group1(calls[1].before, CallMatches(1)[j])) = <<"#", "f">>

-----------------------------------------------------------------------------
(* C3 *)

CreateToolSame ==
    <<"[", "t", "e", "x", "t", "]", "(", ".", "/", "c", "r", "e", "a", "t", "e", "-", "t", "o", "o", "l", ")">>
CreateToolUp ==
    <<"[", "t", "e", "x", "t", "]", "(", ".", ".", "/", "t", "o", "o", "l", "s", "/", "c", "r", "e", "a", "t", "e", "-", "t", "o", "o", "l", ")">>

\* C3 as claimed: the document reference/memory/overview.mdx holding
\* "[text](/reference/v1/tools/create-tool)" is rewritten to "[text](./create-tool)".
C3_Claimed ==
    (Len(calls) >= 1 /\ file_path = PathOverview /\ calls[1].before = LinkCreateTool)
        => calls[1].after = CreateToolSame

\* C3 as amended: it is rewritten to "[text](../tools/create-tool)", the path
\* from reference/memory to reference/tools/create-tool.
C3_Amended ==
    (Len(calls) >= 1 /\ file_path = PathOverview /\ calls[1].before = LinkCreateTool)
        => /\ calls[1].after = CreateToolUp
           /\ calls[1].wrote
           /\ content = CreateToolUp

C3_Witness ==
    Len(calls) >= 1 /\ file_path = PathOverview /\ calls[1].before = LinkCreateTool

-----------------------------------------------------------------------------
(* C4 *)

OverviewUp ==
    <<"[", "t", "e", "x", "t", "]", "(", ".", ".", "/", ".", ".", "/", "d", "o", "c", "s", "/", "m", "e", "m", "o", "r", "y", "/", "o", "v", "e", "r", "v", "i", "e", "w", "#", "p", "e", "r", "s", "i", "s", "t", "e", "n", "c", "e", ")">>

\* C4: for every link process_file converts, following the path that
\* get_relative_path returned (the one in the link's replacement) from the
\* document's directory ends at the
\* normalized BASE_DIR/section/subpath (a trailing ".mdx" removed), whatever
\* the subpath (stated here for the subpaths without a backslash, which line
\* 41 would turn into a separator); and reference/agents/agent.mdx with
\* "/docs/v1/memory/overview#persistence" gives "../../docs/memory/overview#persistence".
C4_RelativePathResolves ==
    \A n \in 1..Len(calls) :
        /\ \A j \in 1..Len(CallMatches(n)) :
               LET link == SplitHash(Group1(calls[n].before, CallMatches(n)[j])).link
                   mp == URL_MAPPINGS[FirstMapping(link)]
                   subpath == SubSeq(link, Len(mp.url_prefix) + 1, Len(link))
                   rel == RelativeOf(Replaced(n, CallMatches(n)[j]))
               IN  (FirstMapping(link) # 0 /\ \A i \in 1..Len(subpath) : subpath[i] # "\\") =>
                       Follow(DocDir, Split(rel, sep)) = Target(mp.section_dir, subpath)
        /\ (file_path = PathAgent /\ calls[n].before = LinkOverview)
               => calls[n].after = OverviewUp

-----------------------------------------------------------------------------
(* C5 *)

\* C5: a call on a document without a match of the pattern is a no-op: the
\* file is not opened for writing, holds what it held, and the call returns False.
C5_NoMatchNoOp ==
    \A n \in 1..Len(calls) :
        CallMatches(n) = <<>> =>
            /\ ~calls[n].wrote
            /\ ~calls[n].ret
            /\ calls[n].after = calls[n].before
            /\ (n = Len(calls) => content = calls[n].before)

\* a first call on a document that has links, none of them recognized
C5_Witness ==
    /\ Len(calls) >= 1
    /\ CallMatches(1) = <<>>
    /\ \E i \in 1..Len(calls[1].before) : HoldsAt(calls[1].before, i, LinkUnknown)
    /\ \E i \in 1..Len(calls[1].before) : HoldsAt(calls[1].before, i, NoBracket)

-----------------------------------------------------------------------------
(* C6 *)

HasKnownPrefix(url) ==
    \E m \in 1..Len(URL_MAPPINGS) : StartsWith(url, URL_MAPPINGS[m].url_prefix)

\* the links "](URL)" of a text that process_file is to leave alone, each as
\* [start, end]: URL has an external scheme or does not begin with a known
\* prefix, and is itself free of "](" and ")"
ForeignLinks(s) ==
    {sp \in [start : 1..Len(s), end : 1..Len(s)] :
        /\ HoldsAt(s, sp.start, <<"]", "(">>)
        /\ sp.end = FindChar(s, ")", sp.start + 2)
        /\ LET url == SubSeq(s, sp.start + 2, sp.end - 1)
           IN  /\ IsExternal(url) \/ ~HasKnownPrefix(url)
               /\ \A i \in 1..Len(url) : ~HoldsAt(url, i, <<"]", "(">>)}

\* C6: every link with an external scheme or without a known prefix is in the
\* output byte for byte, where it was (moved only by the rewrites before it),
\* also when other links of the document are rewritten.
C6_ForeignLinksKept ==
    \A n \in 1..Len(calls) :
        \A sp \in ForeignLinks(calls[n].before) :
            LET e == OutIndex(n, sp.end)
                b == e - (sp.end - sp.start)
            IN  /\ b >= 1
                /\ e <= Len(calls[n].after)
                /\ SubSeq(calls[n].after, b, e) = SubSeq(calls[n].before, sp.start, sp.end)

-----------------------------------------------------------------------------
(* C9 *)

\* index i of text s is inside a match that starts before i
InsideMatch(s, i) ==
    \E j \in 1..Len(Matches(s, 1)) :
        Matches(s, 1)[j].start < i /\ i <= Matches(s, 1)[j].end

\* C9: a link whose path after the prefix is empty, "](P)" or "](P#frag)" for
\* a known prefix P, is rewritten, and its relative path leads from the
\* document's directory to BASE_DIR/section.
C9_EmptyPathToSection ==
    \A n \in 1..Len(calls) :
        \A i \in 1..Len(calls[n].before) :
            \A mi \in 1..Len(URL_MAPPINGS) :
                LET s == calls[n].before
                    P == URL_MAPPINGS[mi].url_prefix
                    close == FindChar(s, ")", i)
                IN  (/\ \/ HoldsAt(s, i, <<"]", "(">> \o P \o <<")">>)
                        \/ HoldsAt(s, i, <<"]", "(">> \o P \o <<"#">>)
                     /\ close # 0
                     /\ ~InsideMatch(s, i))
                    => \E j \in 1..Len(CallMatches(n)) :
                           /\ CallMatches(n)[j].start = i
                           /\ Follow(DocDir, Split(RelativeOf(OutSpan(n, CallMatches(n)[j])), sep))
                                  = SectionDir(URL_MAPPINGS[mi].section_dir)

-----------------------------------------------------------------------------
(* C10 *)

\* C10: every match of the pattern is rewritten: convert_link leaves by the
\* return of the for loop, exactly one mapping's prefix matches, and what it
\* returns is not the matched text; so process_file writes the file and
\* returns True exactly when the document has a match.
C10_EveryMatchRewritten ==
    \A n \in 1..Len(calls) :
        /\ \A j \in 1..Len(CallMatches(n)) :
               LET m == CallMatches(n)[j]
                   g1 == Group1(calls[n].before, m)
               IN  /\ ConvertReturn(g1) = "converted"
                   /\ Cardinality(MatchingMappings(SplitHash(g1).link)) = 1
                   /\ Replaced(n, m) # Group0(calls[n].before, m)
                   /\ OutSpan(n, m) # Group0(calls[n].before, m)
        /\ calls[n].wrote <=> (CallMatches(n) # <<>>)
        /\ calls[n].ret <=> (CallMatches(n) # <<>>)
        /\ (calls[n].after # calls[n].before) <=> (CallMatches(n) # <<>>)

\* a call on a document with two matches, of different sections
C10_Witness ==
    /\ Len(calls) >= 1
    /\ Len(CallMatches(1)) = 2
    /\ FirstMapping(SplitHash(Group1(calls[1].before, CallMatches(1)[1])).link)
           # FirstMapping(SplitHash(Group1(calls[1].before, CallMatches(1)[2])).link)
    /\ calls[1].ret

-----------------------------------------------------------------------------
(* Spec: a run of main over a tree under REFERENCE_DIR *)

MaxFiles == 3

\* the files a tree may hold, as os.walk yields them (top-down: the files of
\* a directory, then its subdirectories): root and file name
FileOrder == <<
    [root |-> REFERENCE_DIR,
     file |-> <<"i", "n", "d", "e", "x", ".", "m", "d", "x">>],
    [root |-> REFERENCE_DIR,
     file |-> <<"n", "o", "t", "e", "s", ".", "t", "x", "t">>],
    [root |-> os_path_join(REFERENCE_DIR, <<"a", "g", "e", "n", "t", "s">>),
     file |-> <<"a", "g", "e", "n", "t", ".", "m", "d", "x">>],
    [root |-> os_path_join(REFERENCE_DIR, <<"m", "e", "m", "o", "r", "y">>),
     file |-> <<"d", "r", "a", "f", "t", ".", "m", "d", "x", ".", "b", "a", "k">>],
    [root |-> os_path_join(REFERENCE_DIR, <<"m", "e", "m", "o", "r", "y">>),
     file |-> <<"o", "v", "e", "r", "v", "i", "e", "w", ".", "m", "d", "x">>] >>

\* what a file of the tree holds when the run starts
TreeDocs == {LinkOverview, LinkExternal}

\* what goes wrong with a file: nothing, open(..., "r") or read raises,
\* open(..., "w") or write raises
Faults == {"none", "read", "write"}

\* the increasing index sequences of length n into FileOrder
RECURSIVE Picks(_, _)
Picks(n, from) ==
    IF n = 0 THEN {<<>>}
    ELSE UNION {{<<i>> \o rest : rest \in Picks(n - 1, i + 1)} : i \in from..Len(FileOrder)}

\* the trees: up to MaxFiles of the files, in walk order
Walks ==
    UNION {{[k \in 1..Len(pick) |->
                [root |-> FileOrder[pick[k]].root, file |-> FileOrder[pick[k]].file,
                 content |-> c[k], fault |-> f[k]]] :
               c \in [1..Len(pick) -> TreeDocs], f \in [1..Len(pick) -> Faults]} :
           pick \in UNION {Picks(n, 1) : n \in 0..MaxFiles}}

FileIdle == file_path = <<>> /\ content = <<>> /\ original = <<>> /\ calls = <<>>

Init ==
    /\ walk \in Walks
    /\ disk = [k \in 1..Len(walk) |-> walk[k].content]
    /\ pc = "loop"
    /\ idx = 0
    /\ files_processed = 0
    /\ files_changed = 0
    /\ stdout = <<>>
    /\ io = <<>>
    /\ FileIdle

\* file.endswith(".mdx")
IsMdx(k) == EndsWith(walk[k].file, mdx)

\* file_path = os.path.join(root, file)
PathOf(k) == os_path_join(walk[k].root, walk[k].file)

\* the for loops reach a file that is not a .mdx file
SkipFile ==
    /\ pc = "loop"
    /\ idx < Len(walk)
    /\ ~IsMdx(idx + 1)
    /\ idx' = idx + 1
    /\ UNCHANGED <<walk, disk, pc, files_processed, files_changed, stdout, io>>
    /\ UNCHANGED fileVars

\* the for loops reach a .mdx file: it is counted, and process_file is called next
StartFile ==
    /\ pc = "loop"
    /\ idx < Len(walk)
    /\ IsMdx(idx + 1)
    /\ idx' = idx + 1
    /\ files_processed' = files_processed + 1
    /\ pc' = "call"
    /\ UNCHANGED <<walk, disk, files_changed, stdout, io>>
    /\ UNCHANGED fileVars

\* a slip in lines 114-122: the error of a file is caught and the walk goes on
ReadFails_Skips ==
    /\ pc = "call"
    /\ walk[idx].fault = "read"
    /\ io' = Append(io, [op |-> "read", file |-> idx, ok |-> FALSE])
    /\ pc' = "loop"
    /\ UNCHANGED <<walk, disk, idx, files_processed, files_changed, stdout>>
    /\ UNCHANGED fileVars

\* process_file raises while opening or reading: nothing in main catches it
ReadFails ==
    /\ pc = "call"
    /\ walk[idx].fault = "read"
    /\ io' = Append(io, [op |-> "read", file |-> idx, ok |-> FALSE])
    /\ pc' = "failed"
    /\ UNCHANGED <<walk, disk, idx, files_processed, files_changed, stdout>>
    /\ UNCHANGED fileVars

\* a slip in lines 120-122: the notice does not depend on what process_file returns
ProcessUnchanged_Notifies ==
    /\ pc = "call"
    /\ walk[idx].fault # "read"
    /\ ~process_file(disk[idx], PathOf(idx)).wrote
    /\ io' = Append(io, [op |-> "read", file |-> idx, ok |-> TRUE])
    /\ pc' = "notify"
    /\ UNCHANGED <<walk, disk, idx, files_processed, files_changed, stdout>>
    /\ UNCHANGED fileVars

\* process_file finds nothing to change and returns False
ProcessUnchanged ==
    /\ pc = "call"
    /\ walk[idx].fault # "read"
    /\ ~process_file(disk[idx], PathOf(idx)).wrote
    /\ io' = Append(io, [op |-> "read", file |-> idx, ok |-> TRUE])
    /\ pc' = "loop"
    /\ UNCHANGED <<walk, disk, idx, files_processed, files_changed, stdout>>
    /\ UNCHANGED fileVars

\* process_file writes the new content and returns True
ProcessChanged ==
    /\ pc = "call"
    /\ walk[idx].fault = "none"
    /\ process_file(disk[idx], PathOf(idx)).wrote
    /\ disk' = [disk EXCEPT ![idx] = process_file(disk[idx], PathOf(idx)).content]
    /\ io' = io \o <<[op |-> "read", file |-> idx, ok |-> TRUE],
                    [op |-> "write", file |-> idx, ok |-> TRUE]>>
    /\ pc' = "notify"
    /\ UNCHANGED <<walk, idx, files_processed, files_changed, stdout>>
    /\ UNCHANGED fileVars

\* process_file raises while opening for writing (the file keeps its content)
\* or while writing (the file was truncated by then): nothing catches it
WriteFails ==
    /\ pc = "call"
    /\ walk[idx].fault = "write"
    /\ process_file(disk[idx], PathOf(idx)).wrote
    /\ \E left \in {disk[idx], <<>>} : disk' = [disk EXCEPT ![idx] = left]
    /\ io' = io \o <<[op |-> "read", file |-> idx, ok |-> TRUE],
                    [op |-> "write", file |-> idx, ok |-> FALSE]>>
    /\ pc' = "failed"
    /\ UNCHANGED <<walk, idx, files_processed, files_changed, stdout>>
    /\ UNCHANGED fileVars

\* process_file returned True: files_changed += 1 and the notice
Notify ==
    /\ pc = "notify"
    /\ files_changed' = files_changed + 1
    /\ stdout' = Append(stdout, [kind |-> "notice", file |-> idx,
                                 text |-> os_path_relpath(PathOf(idx), REFERENCE_DIR)])
    /\ pc' = "loop"
    /\ UNCHANGED <<walk, disk, idx, files_processed, io>>
    /\ UNCHANGED fileVars

\* the walk is over: the summary line
Summary ==
    /\ pc = "loop"
    /\ idx = Len(walk)
    /\ stdout' = Append(stdout, [kind |-> "summary", processed |-> files_processed,
                                 changed |-> files_changed])
    /\ pc' = "done"
    /\ UNCHANGED <<walk, disk, idx, files_processed, files_changed, io>>
    /\ UNCHANGED fileVars

main ==
    \/ SkipFile
    \/ StartFile
    \/ ReadFails
    \/ ProcessUnchanged
    \/ ProcessChanged
    \/ WriteFails
    \/ Notify
    \/ Summary

Next == main

Spec == Init /\ [][Next]_vars

-----------------------------------------------------------------------------
(* what the properties of main are stated with *)

\* the file operations of kind op on file k that went well
DoneOk(op, k) == {i \in 1..Len(io) : io[i].op = op /\ io[i].file = k /\ io[i].ok}

\* the file operations that raised
Raised == {i \in 1..Len(io) : ~io[i].ok}

\* the positions of the lines of a kind in stdout
Lines(kind) == {i \in 1..Len(stdout) : stdout[i].kind = kind}

\* what a file of the tree holds once rewritten
Rewritten(k) == re_sub(walk[k].content, 1, PathOf(k))

\* the .mdx files whose processing has started: process_file is being called
\* on the file, or has opened it
Started == {k \in 1..Len(walk) :
               IsMdx(k) /\ ((k = idx /\ pc = "call") \/ \E i \in 1..Len(io) : io[i].file = k)}

-----------------------------------------------------------------------------
(* C7 *)

\* C7: a run visits every .mdx file of the walk and then prints the summary
\* line, or stops at the first file whose read or write fails: the failed
\* operation is the last one of the run, no later file is read or written, no
\* summary line is printed, no earlier file was skipped, and the files
\* rewritten before it stay rewritten.
C7_AllOrFirstFailure ==
    /\ pc = "done" =>
           /\ \A k \in 1..Len(walk) : IsMdx(k) => DoneOk("read", k) # {}
           /\ Raised = {}
           /\ stdout # <<>> /\ stdout[Len(stdout)].kind = "summary"
    /\ pc = "failed" <=> Raised # {}
    /\ \A i \in Raised :
           /\ i = Len(io)
           /\ io[i].file = idx
           /\ \A j \in 1..Len(io) : io[j].file <= io[i].file
           /\ Lines("summary") = {}
           /\ \A k \in 1..(io[i].file - 1) :
                  /\ IsMdx(k) => DoneOk("read", k) # {}
                  /\ (IsMdx(k) /\ Rewritten(k) # walk[k].content)
                         => DoneOk("write", k) # {} /\ disk[k] = Rewritten(k)
           /\ \A k \in (io[i].file + 1)..Len(walk) : disk[k] = walk[k].content

\* a run that failed on its second or a later file, after it rewrote a file,
\* with a .mdx file still to come
C7_Witness ==
    /\ pc = "failed"
    /\ \E k \in 1..(idx - 1) : DoneOk("write", k) # {} /\ disk[k] # walk[k].content
    /\ \E k \in (idx + 1)..Len(walk) : IsMdx(k)

-----------------------------------------------------------------------------
(* C8 *)

====
